---- MODULE Spec2Model ----
(***************************************************************************)
(* Model of the signing and monitoring helpers of onebalance-examples:     *)
(*   src/helpers/monitoring.ts  monitorTransactionCompletion               *)
(*   src/helpers/signing.ts     signSolanaOperation, signOperation,        *)
(*                              signAllOperations                          *)
(* Every "await" of the source is a point where an action ends; the code   *)
(* between two awaits is one action.                                       *)
(***************************************************************************)
EXTENDS Integers, Sequences, FiniteSets, TLC

(***************************************************************************)
(* Bounds of the model.                                                    *)
(***************************************************************************)
MaxTime == 4        \* the clock runs freely up to here, then only to fire timers
MaxTimeout == 3     \* timeouts tried: 0..MaxTimeout
MaxInterval == 2    \* poll intervals tried: 1..MaxInterval
MaxOps == 3         \* origin operations in a quote: 1..MaxOps
MaxRetries == 2     \* maxRetries options tried: -1..MaxRetries

VARIABLES
    now,            \* Date.now()
    timeout,        \* parameter timeout of monitorTransactionCompletion
    pollInterval,   \* parameter pollInterval of monitorTransactionCompletion
    mon,            \* one record per running monitorTransactionCompletion call
    quote,          \* the quote handed to signAllOperations (originChainsOperations and the rest)
    idx,            \* loop variable i of signAllOperations; index of the operation signOperation works on
    apc,            \* position of the signAllOperations call
    spc,            \* position of the signOperation call
    accountType,    \* parameter accountType of the running signOperation call
    callerType,     \* account type the caller of signAllOperations passes as 5th argument
    solanaKeypair,  \* parameter solanaKeypair (Null = null)
    solanaAccount,  \* parameter solanaAccount (Null = null)
    operation,      \* the operation object handed to signOperation (mutated in place)
    key,            \* the EVM private key (signerKey.privateKey / key)
    sres,           \* value signOperation resolved with / error it rejected with
    ares,           \* value signAllOperations resolved with / error it rejected with
    input,          \* the quote as it was when signAllOperations was called (history)
    inputOp,        \* the operation as it was when signOperation was called (history)
    trace,          \* library calls made so far by the signing code, in order (history)
    agg,            \* the promise of a monitorMultipleTransactions call
    wft,            \* the waitForTransaction call: its options, retries and promise
    earlier         \* the first of two signOperation calls, once the second has begun

monVars == <<now, timeout, pollInterval, mon, agg, wft>>
signVars == <<quote, idx, apc, spc, accountType, callerType, solanaKeypair, solanaAccount,
              operation, key, sres, ares, input, inputOp, trace, earlier>>
vars == <<now, timeout, pollInterval, mon, quote, idx, apc, spc, accountType, callerType,
          solanaKeypair, solanaAccount, operation, key, sres, ares, input, inputOp, trace, agg,
          wft, earlier>>

Absent == "absent"       \* a string or status that is not there
NoKey == [nokey |-> TRUE]   \* an object property that is not there (undefined)
Null == [null |-> TRUE]     \* a property or argument that is null

(***************************************************************************)
(* Completion monitor: src/helpers/monitoring.ts                           *)
(***************************************************************************)
OperationStatus == {"PENDING", "IN_PROGRESS", "EXECUTED", "COMPLETED", "REFUNDED", "FAILED"}

TimeoutMessage == "Transaction monitoring timeout - check status manually"

\* `Transaction ${executionStatus.status.toLowerCase()}`
StatusErrorMessage(status) ==
    CASE status = "FAILED" -> "Transaction failed"
      [] status = "REFUNDED" -> "Transaction refunded"
      [] OTHER -> "Transaction other"

\* The body of the try block once fetchExecutionStatus has returned `status`:
\* COMPLETED sets completed and breaks, FAILED/REFUNDED throw, the rest falls through.
TryBody_ExecutedCompletes(status) ==
    IF status \in {"COMPLETED", "EXECUTED"} THEN [kind |-> "break", error |-> Absent]
    ELSE IF status = "FAILED" \/ status = "REFUNDED"
         THEN [kind |-> "throw", error |-> StatusErrorMessage(status)]
         ELSE [kind |-> "fallthrough", error |-> Absent]

TryBody(status) ==
    IF status = "COMPLETED" THEN [kind |-> "break", error |-> Absent]
    ELSE IF status = "FAILED" \/ status = "REFUNDED"
         THEN [kind |-> "throw", error |-> StatusErrorMessage(status)]
         ELSE [kind |-> "fallthrough", error |-> Absent]

\* The catch block: it logs the error and rethrows nothing, whatever was thrown
\* inside the try (a failed query or the FAILED/REFUNDED error of the try body).
CatchBlock_RethrowQueryError(error) ==
    [rethrow |-> (error = "query error"), logged |-> error]

CatchBlock(error) == [rethrow |-> FALSE, logged |-> error]

\* while (!completed && Date.now() - startTime < timeout)
LoopCondition(m, t) == ~m.completed /\ t - m.startTime < timeout

\* The statuses a transaction on its way to completion reports, in order.
Script == <<"PENDING", "IN_PROGRESS", "COMPLETED">>

\* How far the results of fetchExecutionStatus have followed Script so far:
\* the number of results when they are its first results, -1 otherwise.
ScriptStep(stage, status) ==
    IF stage >= 0 /\ stage < Len(Script) /\ Script[stage + 1] = status
    THEN stage + 1 ELSE -1

\* lateResult (history): the last query settled when the elapsed time had
\* reached the timeout.
InitMonitor ==
    [pc |-> "start", startTime |-> 0, completed |-> FALSE, due |-> 0,
     status |-> Absent, caught |-> Absent, error |-> Absent,
     polls |-> 0, waits |-> 0, terminalSeen |-> {}, script |-> 0, lateResult |-> FALSE]

\* Top of the while loop, reached at the call and after every wait:
\* either the next fetchExecutionStatus is issued or the loop ends; a loop that
\* ends with completed = false throws the timeout error.
LoopTop(m) ==
    IF LoopCondition(m, now)
    THEN [m EXCEPT !.pc = "query", !.polls = @ + 1]
    ELSE IF ~m.completed
         THEN [m EXCEPT !.pc = "rejected", !.error = TimeoutMessage]
         ELSE [m EXCEPT !.pc = "resolved"]

\* if (!completed) await new Promise((resolve) => setTimeout(resolve, pollInterval))
StartWait(m) == [m EXCEPT !.pc = "wait", !.waits = @ + 1, !.due = now + pollInterval]

\* .catch((error) => { console.error(...); throw error })
RethrownError_Wrapped(error) == "Transaction monitoring failed"

RethrownError(error) == error

\* What follows the try/catch for an outcome of the try body.
AfterTry_WaitAfterCompleted(m, outcome) ==
    IF outcome.kind = "break"
    THEN StartWait([m EXCEPT !.completed = TRUE])
    ELSE IF outcome.kind = "throw"
         THEN StartWait([m EXCEPT !.caught = CatchBlock(outcome.error).logged])
         ELSE StartWait(m)

AfterTry_DeadlineCutsQuery(m, outcome) ==
    IF now - m.startTime >= timeout
    THEN [m EXCEPT !.pc = "rejected", !.error = TimeoutMessage]
    ELSE IF outcome.kind = "break"
         THEN [m EXCEPT !.completed = TRUE, !.pc = "resolved"]
         ELSE IF outcome.kind = "throw"
              THEN StartWait([m EXCEPT !.caught = CatchBlock(outcome.error).logged])
              ELSE StartWait(m)

AfterTry(m, outcome) ==
    IF outcome.kind = "break"
    THEN [m EXCEPT !.completed = TRUE, !.pc = "resolved"]
    ELSE IF outcome.kind = "throw"
         THEN LET c == CatchBlock(outcome.error)
              IN  IF c.rethrow
                  THEN [m EXCEPT !.pc = "rejected", !.error = outcome.error]
                  ELSE StartWait([m EXCEPT !.caught = c.logged])
         ELSE StartWait(m)

\* monitorTransactionCompletion is called: startTime = Date.now(), first loop test.
MonitorStart(i) ==
    /\ mon[i].pc = "start"
    /\ mon' = [mon EXCEPT ![i] = LoopTop([mon[i] EXCEPT !.startTime = now])]
    /\ UNCHANGED <<now, timeout, pollInterval>>

\* fetchExecutionStatus resolves with a status.
QueryReturns(i) ==
    /\ mon[i].pc = "query"
    /\ \E status \in OperationStatus :
         mon' = [mon EXCEPT ![i] =
                   AfterTry([mon[i] EXCEPT !.status = status,
                                           !.script = ScriptStep(@, status),
                                           !.lateResult = now - mon[i].startTime >= timeout,
                                           !.terminalSeen =
                                               IF status \in {"COMPLETED", "FAILED", "REFUNDED"}
                                               THEN @ \cup {status} ELSE @],
                            TryBody(status))]
    /\ UNCHANGED <<now, timeout, pollInterval>>

\* fetchExecutionStatus rejects (network or API error).
QueryFails(i) ==
    /\ mon[i].pc = "query"
    /\ mon' = [mon EXCEPT ![i] =
                 AfterTry([mon[i] EXCEPT !.status = "error", !.script = -1,
                                         !.lateResult = now - mon[i].startTime >= timeout],
                          [kind |-> "throw", error |-> "query error"])]
    /\ UNCHANGED <<now, timeout, pollInterval>>

\* The setTimeout of the wait fires; the loop condition is tested again.
WaitDone_ResolveNeverCalled(i) == FALSE /\ UNCHANGED <<now, timeout, pollInterval, mon>>

WaitDone(i) ==
    /\ mon[i].pc = "wait"
    /\ now >= mon[i].due
    /\ mon' = [mon EXCEPT ![i] = LoopTop(mon[i])]
    /\ UNCHANGED <<now, timeout, pollInterval>>

\* No waitForTransaction call.  Of a call: retries and maxRetries as in the
\* code, the timer of the wait before a retry, the error it rejected with, and
\* as history the number of attempts started, of waits before a retry, and
\* whether an attempt that was retried had seen FAILED or REFUNDED.
NoWait ==
    [pc |-> "none", retries |-> 0, maxRetries |-> 0, due |-> 0, error |-> NoKey,
     attempts |-> 0, waits |-> 0, retriedTerminal |-> FALSE]

\* Time passes.
Tick ==
    /\ \/ now < MaxTime
       \/ \E i \in DOMAIN mon : mon[i].pc = "wait" /\ mon[i].due > now
       \/ wft.pc = "retryWait" /\ wft.due > now
    /\ now' = now + 1
    /\ UNCHANGED <<timeout, pollInterval, mon>>

(***************************************************************************)
(* monitorMultipleTransactions: one monitor per quote, all started by the  *)
(* call, and Promise.all over their promises.                              *)
(***************************************************************************)
\* The quotes handed to monitorMultipleTransactions, by index + 1.
Quotes == {1, 2}

\* by: the monitor whose rejection rejected it; at: when it settled (history).
NoAggregate == [pc |-> "idle", error |-> Absent, by |-> 0, at |-> 0]

\* Promise.all over the monitors' promises, as left by the reactions that run
\* once a monitor has settled: it rejects with the error of the first promise
\* that rejected (.catch rethrows the monitor's error) and resolves when
\* every promise has resolved.
AggregateAfter_AllSettled(a, ms) ==
    IF a.pc # "pending" \/ \E i \in DOMAIN ms : ms[i].pc \notin {"resolved", "rejected"}
    THEN a
    ELSE IF \E i \in DOMAIN ms : ms[i].pc = "rejected"
         THEN LET first == CHOOSE i \in DOMAIN ms :
                              /\ ms[i].pc = "rejected"
                              /\ \A j \in DOMAIN ms : ms[j].pc = "rejected" => i <= j
              IN  [pc |-> "rejected", error |-> RethrownError(ms[first].error), by |-> first,
                   at |-> now]
         ELSE [pc |-> "resolved", error |-> Absent, by |-> 0, at |-> now]

AggregateAfter(a, ms) ==
    IF a.pc # "pending" THEN a
    ELSE IF \E i \in DOMAIN ms : ms[i].pc = "rejected"
         THEN LET first == CHOOSE i \in DOMAIN ms :
                              /\ ms[i].pc = "rejected"
                              /\ \A j \in DOMAIN ms : ms[j].pc = "rejected" => i <= j
              IN  [pc |-> "rejected", error |-> RethrownError(ms[first].error), by |-> first,
                   at |-> now]
         ELSE IF \A i \in DOMAIN ms : ms[i].pc = "resolved"
              THEN [pc |-> "resolved", error |-> Absent, by |-> 0, at |-> now]
              ELSE a

\* monitorMultipleTransactions is called: quotes.map calls
\* monitorTransactionCompletion for every quote, each running to its first
\* await, and Promise.all is awaited.
MultiStart ==
    /\ agg.pc = "idle"
    /\ LET started == [i \in Quotes |-> LoopTop([mon[i] EXCEPT !.startTime = now])]
       IN  /\ mon' = started
           /\ agg' = AggregateAfter([agg EXCEPT !.pc = "pending"], started)
    /\ UNCHANGED <<now, timeout, pollInterval>>

\* A step of one of the monitors, followed by the reactions of its promise.
MultiStep_SharedCompletedFlag(i) ==
    /\ agg.pc # "idle"
    /\ \/ /\ mon[i].pc = "query"
          /\ \E status \in OperationStatus :
                LET m == AfterTry([mon[i] EXCEPT !.status = status], TryBody(status))
                IN  mon' = [j \in DOMAIN mon |->
                              IF j = i THEN m
                              ELSE [mon[j] EXCEPT !.completed = @ \/ m.completed]]
          /\ UNCHANGED <<now, timeout, pollInterval>>
       \/ WaitDone(i)
    /\ agg' = AggregateAfter(agg, mon')

MultiStep(i) ==
    /\ agg.pc # "idle"
    /\ QueryReturns(i) \/ QueryFails(i) \/ WaitDone(i)
    /\ agg' = AggregateAfter(agg, mon')

(***************************************************************************)
(* waitForTransaction: monitoring attempts in sequence                     *)
(***************************************************************************)
\* if (retries >= maxRetries)
RetriesExhausted_OneMore(retries, maxRetries) == retries > maxRetries

RetriesExhausted(retries, maxRetries) == retries >= maxRetries

\* `Failed to monitor transaction after ${maxRetries} attempts`
RetryErrorMessage(maxRetries) ==
    [text |-> "Failed to monitor transaction after N attempts", N |-> maxRetries]

\* Top of `while (retries < maxRetries)`: the next monitoring attempt is
\* started (monitorTransactionCompletion runs to its first await), or the
\* loop ends and the function returns.
WaitLoopTop(w) ==
    IF w.retries < w.maxRetries
    THEN /\ wft' = [w EXCEPT !.pc = "monitoring", !.attempts = @ + 1]
         /\ mon' = [mon EXCEPT ![1] = LoopTop([InitMonitor EXCEPT !.startTime = now])]
    ELSE /\ wft' = [w EXCEPT !.pc = "resolved"]
         /\ mon' = mon

\* waitForTransaction(quote, { timeout, pollInterval, maxRetries }) is called.
WaitStart ==
    /\ wft.pc = "idle"
    /\ WaitLoopTop(wft)
    /\ UNCHANGED <<now, timeout, pollInterval, agg>>

\* The awaited monitor resolved: return.
WaitAttemptSucceeded ==
    /\ wft.pc = "monitoring" /\ mon[1].pc = "resolved"
    /\ wft' = [wft EXCEPT !.pc = "resolved"]
    /\ UNCHANGED <<now, timeout, pollInterval, mon, agg>>

\* The awaited monitor rejected: the catch block counts the retry and either
\* throws the final error or starts the wait of pollInterval.
WaitAttemptFailed ==
    /\ wft.pc = "monitoring" /\ mon[1].pc = "rejected"
    /\ LET retries == wft.retries + 1
       IN  wft' = IF RetriesExhausted(retries, wft.maxRetries)
                  THEN [wft EXCEPT !.pc = "rejected", !.retries = retries,
                                   !.error = RetryErrorMessage(wft.maxRetries)]
                  ELSE [wft EXCEPT !.pc = "retryWait", !.retries = retries,
                                   !.due = now + pollInterval, !.waits = @ + 1,
                                   !.retriedTerminal =
                                       @ \/ mon[1].terminalSeen \cap {"FAILED", "REFUNDED"} # {}]
    /\ UNCHANGED <<now, timeout, pollInterval, mon, agg>>

\* The timer of the wait fires: back to the top of the loop.
WaitRetry ==
    /\ wft.pc = "retryWait"
    /\ now >= wft.due
    /\ WaitLoopTop(wft)
    /\ UNCHANGED <<now, timeout, pollInterval, agg>>

\* A step of the monitor of the attempt in progress.
WaitMonitorStep ==
    /\ wft.pc = "monitoring"
    /\ QueryReturns(1) \/ QueryFails(1) \/ WaitDone(1)
    /\ UNCHANGED <<agg, wft>>

(***************************************************************************)
(* Operations and quotes: src/helpers/types.ts                             *)
(* Optional properties hold NoKey when they are not there.  Decimal        *)
(* strings of the wire format are sequences of digits.  A chainId of 0     *)
(* stands for a domain without a (truthy) chainId.                         *)
(***************************************************************************)
ContractAccountType == {"role-based", "kernel-v3.1-ecdsa", "kernel-v3.3-ecdsa", "solana"}

PlaceholderSignature == [scheme |-> "placeholder"]

\* Optional strings hold Absent, optional decimal strings the empty sequence.
SerializedUserOperation ==
    [sender |-> "0xSender", nonce |-> <<7>>, factory |-> Absent, factoryData |-> Absent,
     callData |-> "0xCallData", callGasLimit |-> <<1, 0>>, verificationGasLimit |-> <<2, 0>>,
     preVerificationGas |-> <<3>>, maxFeePerGas |-> <<2, 5>>, maxPriorityFeePerGas |-> <<1>>,
     paymaster |-> Absent, paymasterVerificationGasLimit |-> <<>>,
     paymasterPostOpGasLimit |-> <<>>, paymasterData |-> Absent,
     signature |-> PlaceholderSignature]

TypedData(chainId) ==
    [domain |-> [chainId |-> chainId], primaryType |-> "UserOperation", message |-> "0xMessage"]

UnsignedDelegation == [contractAddress |-> "0xKernel", nonce |-> 3, signature |-> NoKey]

StaleDelegationSignature ==
    [chainId |-> 1, contractAddress |-> "0xKernel", nonce |-> 2,
     r |-> [part |-> "r", signer |-> "old", over |-> NoKey],
     s |-> [part |-> "s", signer |-> "old", over |-> NoKey],
     v |-> <<1, 11>>, yParity |-> 0, type |-> "Signed"]

ChainOp(userOp, typedDataToSign, delegation) ==
    [type |-> Absent, userOp |-> userOp, typedDataToSign |-> typedDataToSign,
     delegation |-> delegation, assetType |-> "eip155:1/erc20:0xA", amount |-> <<5, 0>>,
     instructions |-> Absent, recentBlockHash |-> Absent, feePayer |-> Absent,
     dataToSign |-> NoKey, signature |-> NoKey]

\* dataToSign: the base64 string of a MessageV0, given by what it decodes to:
\* the message bytes and the required signers (the first numRequiredSignatures
\* static account keys).
SolanaOp(dataToSign) ==
    [type |-> "solana", userOp |-> NoKey, typedDataToSign |-> NoKey,
     delegation |-> NoKey, assetType |-> "solana:5eykt/slip44:501", amount |-> <<9>>,
     instructions |-> "instructions", recentBlockHash |-> "blockhash", feePayer |-> "SolA",
     dataToSign |-> dataToSign, signature |-> NoKey]

EvmOperations ==
    { ChainOp(SerializedUserOperation, TypedData(1), NoKey),
      ChainOp(SerializedUserOperation, TypedData(1), UnsignedDelegation),
      ChainOp(SerializedUserOperation, TypedData(1),
              [UnsignedDelegation EXCEPT !.signature = StaleDelegationSignature]),
      ChainOp(SerializedUserOperation, TypedData(0), UnsignedDelegation),
      ChainOp(Null, TypedData(1), UnsignedDelegation),
      ChainOp(SerializedUserOperation, Null, NoKey) }

SolanaOperations ==
    { SolanaOp([message |-> "0xSolMsg", signers |-> <<"SolA">>]),
      SolanaOp([message |-> "0xSolMsg", signers |-> <<"SolA", "SolB">>]),
      SolanaOp(NoKey) }

\* Entries that are neither: no type, and only one of userOp / typedDataToSign.
OtherOperations ==
    { ChainOp(SerializedUserOperation, NoKey, NoKey) }

Operations == EvmOperations \cup SolanaOperations \cup OtherOperations

RECURSIVE SeqsUpTo(_, _)
SeqsUpTo(S, n) ==
    IF n = 0 THEN {<<>>}
    ELSE LET shorter == SeqsUpTo(S, n - 1)
         IN  shorter \cup {Append(q, x) : q \in {r \in shorter : Len(r) = n - 1}, x \in S}

QuoteOf(ops) ==
    [id |-> "0xQuote",
     accounts |-> <<[type |-> "kernel-v3.1-ecdsa", accountAddress |-> "0xSender"]>>,
     originChainsOperations |-> ops,
     destinationChainOperation |-> ChainOp(SerializedUserOperation, TypedData(2), NoKey),
     originToken |-> [aggregatedAssetId |-> "ob:usdc", amount |-> <<1, 0>>],
     destinationToken |-> [aggregatedAssetId |-> "ob:eth", amount |-> <<3>>],
     expirationTimestamp |-> <<9, 9>>,
     tamperProofSignature |-> "0xTamperProof"]

\* quote.originChainsOperations[i] = signedOperation
StoreAt_AlsoDestination(q, i, op) ==
    [q EXCEPT !.originChainsOperations[i] = op, !.destinationChainOperation = op]

StoreAt(q, i, op) == [q EXCEPT !.originChainsOperations[i] = op]

(***************************************************************************)
(* Library primitives used by src/helpers/signing.ts                       *)
(***************************************************************************)
\* BigInt(decimal string)
RECURSIVE BigInt(_)
BigInt(digits) ==
    IF digits = <<>> THEN 0
    ELSE 10 * BigInt(SubSeq(digits, 1, Len(digits) - 1)) + digits[Len(digits)]

\* Number(v).toString(16).padStart(2, '0'), as hexadecimal digits
ToHex2(v) == IF v < 16 THEN <<0, v>> ELSE <<v \div 16, v % 16>>

\* bs58.encode / bs58.decode
Bs58Encode(bytes) == [bs58 |-> bytes]
Bs58Decode(str) == str.bs58

\* A gas limit that is undefined in the deserialized UserOperation.
NoGasLimit == -1

\* getUserOperationHash (viem) for entry point 0.7: the hash of the packed
\* UserOperation (sender, nonce, initCode, callData, gas limits, fees,
\* paymasterAndData), of the entry point and of the chainId.  The signature
\* is not packed.  Missing paymaster gas limits are packed as 0.
GetUserOperationHash_CoversSignature(userOperation, entryPointAddress, entryPointVersion, chainId) ==
    [sender |-> userOperation.sender, nonce |-> userOperation.nonce,
     initCode |-> IF userOperation.factory = Absent \/ userOperation.factoryData = Absent
                  THEN [empty |-> TRUE]
                  ELSE [factory |-> userOperation.factory,
                        factoryData |-> userOperation.factoryData],
     callData |-> userOperation.callData, signature |-> userOperation.signature,
     accountGasLimits |-> <<userOperation.verificationGasLimit, userOperation.callGasLimit>>,
     preVerificationGas |-> userOperation.preVerificationGas,
     gasFees |-> <<userOperation.maxPriorityFeePerGas, userOperation.maxFeePerGas>>,
     paymasterAndData |->
         IF userOperation.paymaster = Absent
         THEN [empty |-> TRUE]
         ELSE [paymaster |-> userOperation.paymaster,
               verificationGasLimit |->
                   IF userOperation.paymasterVerificationGasLimit = NoGasLimit
                   THEN 0 ELSE userOperation.paymasterVerificationGasLimit,
               postOpGasLimit |->
                   IF userOperation.paymasterPostOpGasLimit = NoGasLimit
                   THEN 0 ELSE userOperation.paymasterPostOpGasLimit,
               paymasterData |-> userOperation.paymasterData],
     entryPointAddress |-> entryPointAddress, entryPointVersion |-> entryPointVersion,
     chainId |-> chainId]

GetUserOperationHash(userOperation, entryPointAddress, entryPointVersion, chainId) ==
    [sender |-> userOperation.sender, nonce |-> userOperation.nonce,
     initCode |-> IF userOperation.factory = Absent \/ userOperation.factoryData = Absent
                  THEN [empty |-> TRUE]
                  ELSE [factory |-> userOperation.factory,
                        factoryData |-> userOperation.factoryData],
     callData |-> userOperation.callData,
     accountGasLimits |-> <<userOperation.verificationGasLimit, userOperation.callGasLimit>>,
     preVerificationGas |-> userOperation.preVerificationGas,
     gasFees |-> <<userOperation.maxPriorityFeePerGas, userOperation.maxFeePerGas>>,
     paymasterAndData |->
         IF userOperation.paymaster = Absent
         THEN [empty |-> TRUE]
         ELSE [paymaster |-> userOperation.paymaster,
               verificationGasLimit |->
                   IF userOperation.paymasterVerificationGasLimit = NoGasLimit
                   THEN 0 ELSE userOperation.paymasterVerificationGasLimit,
               postOpGasLimit |->
                   IF userOperation.paymasterPostOpGasLimit = NoGasLimit
                   THEN 0 ELSE userOperation.paymasterPostOpGasLimit,
               paymasterData |-> userOperation.paymasterData],
     entryPointAddress |-> entryPointAddress, entryPointVersion |-> entryPointVersion,
     chainId |-> chainId]

\* signerAccount.signMessage({ message: { raw } })
SignMessage(k, raw) == [scheme |-> "personal", signer |-> k, over |-> raw]

\* signerAccount.signTypedData(typedData)
SignTypedData(k, typedData) == [scheme |-> "eip712", signer |-> k, over |-> typedData]

\* signerAccount.signAuthorization(authTuple); yParity is what the account
\* implementation reports: 0, 1, or NoParity when it reports none.
NoParity == -1
SignAuthorization(k, authTuple, yParity) ==
    [address |-> authTuple.contractAddress, nonce |-> authTuple.nonce,
     chainId |-> authTuple.chainId,
     r |-> [part |-> "r", signer |-> k, over |-> authTuple],
     s |-> [part |-> "s", signer |-> k, over |-> authTuple],
     v |-> IF yParity = NoParity THEN 27 ELSE 27 + yParity,
     yParity |-> yParity]

\* ed25519 signature of a message (VersionedTransaction.sign)
Ed25519Sign(secretKey, message) == [scheme |-> "ed25519", signer |-> secretKey, over |-> message]
EmptySignature == [scheme |-> "zeroes"]

(***************************************************************************)
(* src/helpers/signing.ts                                                  *)
(***************************************************************************)
Falsy(x) == x = NoKey \/ x = Null

Failure(message) == [kind |-> "error", error |-> message, value |-> NoKey]
Success(value) == [kind |-> "value", error |-> Absent, value |-> value]

\* One library call, as recorded in trace.
Call(name, over) == [call |-> name, index |-> idx, over |-> over]

\* deserializeUserOp
DeserializeUserOp(userOp) ==
    [sender |-> userOp.sender,
     nonce |-> BigInt(userOp.nonce),
     factory |-> userOp.factory,
     factoryData |-> userOp.factoryData,
     callData |-> userOp.callData,
     callGasLimit |-> BigInt(userOp.callGasLimit),
     verificationGasLimit |-> BigInt(userOp.verificationGasLimit),
     preVerificationGas |-> BigInt(userOp.preVerificationGas),
     maxFeePerGas |-> BigInt(userOp.maxFeePerGas),
     maxPriorityFeePerGas |-> BigInt(userOp.maxPriorityFeePerGas),
     paymaster |-> userOp.paymaster,
     paymasterVerificationGasLimit |->
         IF userOp.paymasterVerificationGasLimit # <<>>
         THEN BigInt(userOp.paymasterVerificationGasLimit) ELSE NoGasLimit,
     paymasterPostOpGasLimit |->
         IF userOp.paymasterPostOpGasLimit # <<>>
         THEN BigInt(userOp.paymasterPostOpGasLimit) ELSE NoGasLimit,
     paymasterData |-> userOp.paymasterData,
     signature |-> userOp.signature]

\* if (!chainOp.dataToSign)
DataToSignMissing_NeverChecked(chainOp) == FALSE

DataToSignMissing(chainOp) == Falsy(chainOp.dataToSign)

\* return { ...chainOp, signature }
SolanaSignedCopy_Reserialized(chainOp, signature) ==
    [chainOp EXCEPT !.signature = signature,
                    !.dataToSign = [message |-> "0xReserialized", signers |-> @.signers]]

SolanaSignedCopy(chainOp, signature) == [chainOp EXCEPT !.signature = signature]

\* signSolanaOperation: the library calls it makes, and the signed copy it
\* returns or the error thrown.
SignSolanaRun(accountAddress, privateKey, chainOp) ==
    IF DataToSignMissing(chainOp)
    THEN [calls |-> <<>>,
          result |-> Failure("dataToSign is required for Solana operation signing")]
    ELSE IF chainOp.dataToSign = NoKey
    THEN [calls |-> <<"Buffer.from">>,
          result |-> Failure("The first argument must be of type string")]
    ELSE LET message == chainOp.dataToSign
             n == Len(message.signers)
             signerIndex == {j \in 1..n : message.signers[j] = accountAddress}
             signatures == [j \in 1..n |->
                              IF j \in signerIndex
                              THEN Ed25519Sign(Bs58Decode(privateKey), message.message)
                              ELSE EmptySignature]
             signing == <<"Buffer.from", "MessageV0.deserialize", "bs58.decode",
                          "transaction.sign">>
         IN  IF signerIndex = {}
             THEN [calls |-> signing, result |-> Failure("Cannot sign with non signer key")]
             ELSE [calls |-> Append(signing, "bs58.encode"),
                   result |-> Success(SolanaSignedCopy(chainOp, Bs58Encode(signatures[n])))]

SignSolanaOperation(accountAddress, privateKey, chainOp) ==
    SignSolanaRun(accountAddress, privateKey, chainOp).result

\* The library calls signSolanaOperation makes, in order.
SolanaCalls(accountAddress, privateKey, chainOp) ==
    SignSolanaRun(accountAddress, privateKey, chainOp).calls

KernelTypes == {"kernel-v3.1-ecdsa", "kernel-v3.3-ecdsa"}

\* operation.typedDataToSign?.domain?.chainId
ChainIdOf(op) == IF Falsy(op.typedDataToSign) THEN 0 ELSE op.typedDataToSign.domain.chainId

\* !operation.userOp || !operation.typedDataToSign?.domain?.chainId
KernelContextMissing_UserOpOnly(op) == Falsy(op.userOp)

KernelContextMissing(op) == Falsy(op.userOp) \/ ChainIdOf(op) = 0

\* The mode signOperation takes for an account type.
UsesUserOpHash_OnlyV31(type) == type = "kernel-v3.1-ecdsa"

UsesUserOpHash(type) == type = "kernel-v3.1-ecdsa" \/ type = "kernel-v3.3-ecdsa"

\* const authTuple = { contractAddress, nonce, chainId }
AuthTupleOf_NonceAfterSigned(op) ==
    [contractAddress |-> op.delegation.contractAddress,
     nonce |-> IF Falsy(op.delegation.signature) THEN op.delegation.nonce
               ELSE op.delegation.nonce + 1,
     chainId |-> ChainIdOf(op)]

AuthTupleOf(op) ==
    [contractAddress |-> op.delegation.contractAddress, nonce |-> op.delegation.nonce,
     chainId |-> ChainIdOf(op)]

\* if (operation.delegation): a delegation is signed whenever there is one,
\* whether or not it carries a signature already.
HasDelegation_OnlyUnsigned(op) == ~Falsy(op.delegation) /\ Falsy(op.delegation.signature)

HasDelegation(op) == ~Falsy(op.delegation)

\* if (signedTuple.yParity == null)
ParityMissing_NeverChecked(signedTuple) == FALSE

ParityMissing(signedTuple) == signedTuple.yParity = NoParity

\* The object written to operation.delegation.signature.
DelegationSignatureOf_TupleUnsigned(chainId, signedTuple) ==
    [chainId |-> chainId, contractAddress |-> signedTuple.address, nonce |-> signedTuple.nonce,
     r |-> signedTuple.r, s |-> signedTuple.s, v |-> ToHex2(signedTuple.v),
     yParity |-> signedTuple.yParity, type |-> "Unsigned"]

DelegationSignatureOf(chainId, signedTuple) ==
    [chainId |-> chainId, contractAddress |-> signedTuple.address, nonce |-> signedTuple.nonce,
     r |-> signedTuple.r, s |-> signedTuple.s, v |-> ToHex2(signedTuple.v),
     yParity |-> signedTuple.yParity, type |-> "Signed"]

\* getUserOperationHash({ userOperation: deserializeUserOp(operation.userOp), ... })
UserOpHashOf_CoversDelegation(op) ==
    LET h == GetUserOperationHash(DeserializeUserOp(op.userOp), "entryPoint07Address", "0.7",
                                  ChainIdOf(op))
    IN  [f \in DOMAIN h \cup {"delegation"} |->
            IF f = "delegation" THEN op.delegation ELSE h[f]]

UserOpHashOf(op) ==
    GetUserOperationHash(DeserializeUserOp(op.userOp), "entryPoint07Address", "0.7", ChainIdOf(op))

\* { ...operation, userOp: { ...operation.userOp, signature } }
SignedCopy_DropsDelegation(op, signature) ==
    [op EXCEPT !.userOp = IF Falsy(@) THEN [signature |-> signature]
                          ELSE [@ EXCEPT !.signature = signature],
               !.delegation = NoKey]

SignedCopy(op, signature) ==
    [op EXCEPT !.userOp = IF Falsy(@) THEN [signature |-> signature]
                          ELSE [@ EXCEPT !.signature = signature]]

\* While signAllOperations awaits signOperation, `operation` is the very
\* object at index i of quote.originChainsOperations.
QuoteSeeing(op) ==
    IF apc = "awaitSign" THEN [quote EXCEPT !.originChainsOperations[idx] = op] ELSE quote

\* signOperation from its call to its first await (or to the error it throws
\* before any await).
EnterSignOperation(op, k, type) ==
    /\ operation' = op
    /\ key' = k
    /\ accountType' = type
    /\ inputOp' = op
    /\ IF UsesUserOpHash(type)
       THEN IF KernelContextMissing(op)
            THEN /\ spc' = "rejected"
                 /\ sres' = Failure("UserOperation and Chain ID are required for Kernel signing.")
                 /\ trace' = trace
            ELSE IF HasDelegation(op)
                 THEN /\ spc' = "signAuthorization"
                      /\ sres' = NoKey
                      /\ trace' = Append(trace, Call("signAuthorization", AuthTupleOf(op)))
                 ELSE /\ spc' = "signMessage"
                      /\ sres' = NoKey
                      /\ trace' = trace \o <<Call("getUserOperationHash", UserOpHashOf(op)),
                                             Call("signMessage", UserOpHashOf(op))>>
       ELSE IF Falsy(op.typedDataToSign)
            THEN /\ spc' = "rejected"
                 /\ sres' = Failure("TypedData is required for role-based account signing.")
                 /\ trace' = trace
            ELSE /\ spc' = "signTypedData"
                 /\ sres' = NoKey
                 /\ trace' = Append(trace, Call("signTypedData", op.typedDataToSign))

\* signOperation(operation, key, accountType) called on its own; an omitted
\* accountType takes the default ContractAccountType.RoleBased.
SignOperationCall ==
    /\ apc = "direct" /\ spc = "idle"
    /\ EnterSignOperation(operation, key,
                          IF callerType = Absent THEN "role-based" ELSE callerType)
    /\ UNCHANGED <<quote, idx, apc, callerType, solanaKeypair, solanaAccount, ares, input>>

\* signAuthorization resolves: the parity check, the write of
\* delegation.signature, the hash, and the start of signMessage.
AuthorizationReturns ==
    /\ spc = "signAuthorization"
    /\ \E yParity \in {0, 1, NoParity} :
         LET signedTuple == SignAuthorization(key, AuthTupleOf(operation), yParity)
             written == [operation EXCEPT !.delegation.signature =
                             DelegationSignatureOf(ChainIdOf(operation), signedTuple)]
         IN  IF ParityMissing(signedTuple)
             THEN /\ spc' = "rejected"
                  /\ sres' = Failure("Y parity is required")
                  /\ UNCHANGED <<operation, quote, trace>>
             ELSE /\ spc' = "signMessage"
                  /\ operation' = written
                  /\ quote' = QuoteSeeing(written)
                  /\ trace' = trace \o <<Call("getUserOperationHash", UserOpHashOf(written)),
                                         Call("signMessage", UserOpHashOf(written))>>
                  /\ UNCHANGED sres
    /\ UNCHANGED <<idx, apc, accountType, callerType, solanaKeypair, solanaAccount, key,
                   ares, input, inputOp>>

\* A signing primitive of the account rejects.
SignerRejects(at) ==
    /\ spc = at
    /\ spc' = "rejected"
    /\ sres' = Failure("signer error")
    /\ UNCHANGED <<quote, idx, apc, accountType, callerType, solanaKeypair, solanaAccount,
                   operation, key, ares, input, inputOp, trace>>

AuthorizationFails == SignerRejects("signAuthorization")
MessageFails == SignerRejects("signMessage")
TypedDataFails == SignerRejects("signTypedData")

\* signMessage resolves: signOperation returns the copy with userOp.signature.
MessageSigned_InPlace ==
    /\ spc = "signMessage"
    /\ spc' = "resolved"
    /\ operation' = SignedCopy(operation, SignMessage(key, UserOpHashOf(operation)))
    /\ sres' = Success(operation')
    /\ UNCHANGED <<quote, idx, apc, accountType, callerType, solanaKeypair, solanaAccount,
                   key, ares, input, inputOp, trace>>

MessageSigned ==
    /\ spc = "signMessage"
    /\ spc' = "resolved"
    /\ sres' = Success(SignedCopy(operation, SignMessage(key, UserOpHashOf(operation))))
    /\ UNCHANGED <<quote, idx, apc, accountType, callerType, solanaKeypair, solanaAccount,
                   operation, key, ares, input, inputOp, trace>>

\* signTypedData resolves: signOperation returns the copy with userOp.signature.
TypedDataSigned ==
    /\ spc = "signTypedData"
    /\ spc' = "resolved"
    /\ sres' = Success(SignedCopy(operation, SignTypedData(key, operation.typedDataToSign)))
    /\ UNCHANGED <<quote, idx, apc, accountType, callerType, solanaKeypair, solanaAccount,
                   operation, key, ares, input, inputOp, trace>>

\* 'type' in operation && operation.type === 'solana' && solanaKeypair && solanaAccount
IsSolanaSignable(op) ==
    op.type # Absent /\ op.type = "solana" /\ ~Falsy(solanaKeypair) /\ ~Falsy(solanaAccount)

\* 'userOp' in operation && 'typedDataToSign' in operation
IsEvmOperation_UserOpOnly(op) == op.userOp # NoKey

IsEvmOperation(op) == op.userOp # NoKey /\ op.typedDataToSign # NoKey

Ops == quote.originChainsOperations

\* i++
NextIndex_SkipsOne(i) == i + 2

NextIndex(i) == i + 1

\* for (let i = 0; i < quote.originChainsOperations.length; i++), i = idx - 1
InLoop == apc = "loop" /\ idx <= Len(Ops)

\* The Solana branch of the loop body: signSolanaOperation runs to its end
\* (it has no await); its result replaces entry i, its error rejects the call.
SignAllSolana ==
    /\ InLoop
    /\ IsSolanaSignable(Ops[idx])
    /\ LET privateKeyString == Bs58Encode(solanaKeypair.secretKey)
           result == SignSolanaOperation(solanaAccount.accountAddress, privateKeyString, Ops[idx])
           calls == SolanaCalls(solanaAccount.accountAddress, privateKeyString, Ops[idx])
       IN  /\ trace' = trace \o [k \in 1..Len(calls) |-> Call(calls[k], Ops[idx])]
           /\ IF result.kind = "error"
              THEN /\ apc' = "rejected"
                   /\ ares' = result
                   /\ UNCHANGED <<quote, idx>>
              ELSE /\ quote' = StoreAt(quote, idx, result.value)
                   /\ idx' = NextIndex(idx)
                   /\ UNCHANGED <<apc, ares>>
    /\ UNCHANGED <<spc, accountType, callerType, solanaKeypair, solanaAccount, operation, key,
                   sres, input, inputOp>>

\* The EVM branch: signOperation(operation, signerKey.privateKey,
\* ContractAccountType.KernelV31) is called and awaited.
SignAllEvm ==
    /\ InLoop
    /\ ~IsSolanaSignable(Ops[idx])
    /\ IsEvmOperation(Ops[idx])
    /\ apc' = "awaitSign"
    /\ EnterSignOperation(Ops[idx], key, "kernel-v3.1-ecdsa")
    /\ UNCHANGED <<quote, idx, callerType, solanaKeypair, solanaAccount, ares, input>>

\* Neither branch applies: the entry is left as it is.
SignAllSkip ==
    /\ InLoop
    /\ ~IsSolanaSignable(Ops[idx])
    /\ ~IsEvmOperation(Ops[idx])
    /\ idx' = NextIndex(idx)
    /\ UNCHANGED <<quote, apc, spc, accountType, callerType, solanaKeypair, solanaAccount,
                   operation, key, sres, ares, input, inputOp, trace>>

\* The awaited signOperation resolved: quote.originChainsOperations[i] = signedOperation.
SignAllStore ==
    /\ apc = "awaitSign" /\ spc = "resolved"
    /\ quote' = StoreAt(quote, idx, sres.value)
    /\ idx' = NextIndex(idx)
    /\ apc' = "loop"
    /\ spc' = "idle"
    /\ UNCHANGED <<accountType, callerType, solanaKeypair, solanaAccount, operation, key,
                   sres, ares, input, inputOp, trace>>

\* The awaited signOperation rejected: nothing catches it, signAllOperations rejects.
SignAllPropagate_Swallow ==
    /\ apc = "awaitSign" /\ spc = "rejected"
    /\ idx' = NextIndex(idx)
    /\ apc' = "loop"
    /\ spc' = "idle"
    /\ UNCHANGED <<quote, accountType, callerType, solanaKeypair, solanaAccount, operation, key,
                   sres, ares, input, inputOp, trace>>

SignAllPropagate ==
    /\ apc = "awaitSign" /\ spc = "rejected"
    /\ apc' = "rejected"
    /\ ares' = sres
    /\ UNCHANGED <<quote, idx, spc, accountType, callerType, solanaKeypair, solanaAccount,
                   operation, key, sres, input, inputOp, trace>>

\* The loop is over: return quote.
SignAllReturn ==
    /\ apc = "loop" /\ idx > Len(Ops)
    /\ apc' = "resolved"
    /\ ares' = Success(quote)
    /\ UNCHANGED <<quote, idx, spc, accountType, callerType, solanaKeypair, solanaAccount,
                   operation, key, sres, input, inputOp, trace>>

(***************************************************************************)
(* Specifications                                                          *)
(***************************************************************************)
InitMonIdle == now = 0 /\ timeout = 0 /\ pollInterval = 1 /\ mon = <<>> /\ agg = NoAggregate
               /\ wft = NoWait

SolanaKeypairs == {Null, [secretKey |-> "SolSecretA", publicKey |-> "SolA"]}
SolanaAccounts == {Null, [accountAddress |-> "SolA"]}

\* signAllOperations(quote, signerKey, solanaKeypair, solanaAccount, callerType)
\* is called; callers pass the account type as a fifth argument.
InitSignAll ==
    /\ InitMonIdle
    /\ \E ops \in SeqsUpTo(Operations, MaxOps) :
          /\ ops # <<>>
          /\ quote = QuoteOf(ops)
          /\ input = QuoteOf(ops)
    /\ idx = 1
    /\ apc = "loop"
    /\ spc = "idle"
    /\ accountType = Absent
    /\ callerType \in {"role-based", "kernel-v3.1-ecdsa", "kernel-v3.3-ecdsa"}
    /\ solanaKeypair \in SolanaKeypairs
    /\ solanaAccount \in SolanaAccounts
    /\ operation = NoKey
    /\ key = "0xKeyA"
    /\ sres = NoKey /\ ares = NoKey /\ inputOp = NoKey /\ trace = <<>>
    /\ earlier = NoKey

NextSignAll ==
    \/ SignAllSolana /\ UNCHANGED <<monVars, earlier>>
    \/ SignAllEvm /\ UNCHANGED <<monVars, earlier>>
    \/ SignAllSkip /\ UNCHANGED <<monVars, earlier>>
    \/ SignAllStore /\ UNCHANGED <<monVars, earlier>>
    \/ SignAllPropagate /\ UNCHANGED <<monVars, earlier>>
    \/ SignAllReturn /\ UNCHANGED <<monVars, earlier>>
    \/ AuthorizationReturns /\ UNCHANGED <<monVars, earlier>>
    \/ AuthorizationFails /\ UNCHANGED <<monVars, earlier>>
    \/ MessageSigned /\ UNCHANGED <<monVars, earlier>>
    \/ MessageFails /\ UNCHANGED <<monVars, earlier>>

SpecSignAll == InitSignAll /\ [][NextSignAll]_vars

\* signOperation(operation, key, accountType) is called on one operation;
\* callerType = Absent is a call without the third argument.
InitSignOp ==
    /\ InitMonIdle
    /\ quote = NoKey /\ input = NoKey /\ idx = 0
    /\ apc = "direct"
    /\ spc = "idle"
    /\ accountType = Absent
    /\ callerType \in ContractAccountType \cup {Absent}
    /\ solanaKeypair = Null /\ solanaAccount = Null
    /\ operation \in EvmOperations \cup OtherOperations
    /\ key \in {"0xKeyA", "0xKeyB"}
    /\ sres = NoKey /\ ares = NoKey /\ inputOp = NoKey /\ trace = <<>>
    /\ earlier = NoKey

NextSignOp ==
    \/ SignOperationCall /\ UNCHANGED <<monVars, earlier>>
    \/ AuthorizationReturns /\ UNCHANGED <<monVars, earlier>>
    \/ AuthorizationFails /\ UNCHANGED <<monVars, earlier>>
    \/ MessageSigned /\ UNCHANGED <<monVars, earlier>>
    \/ MessageFails /\ UNCHANGED <<monVars, earlier>>
    \/ TypedDataSigned /\ UNCHANGED <<monVars, earlier>>
    \/ TypedDataFails /\ UNCHANGED <<monVars, earlier>>

SpecSignOp == InitSignOp /\ [][NextSignOp]_vars

\* Operations a caller may sign after `op`: `op` with one field of its
\* UserOperation, its chainId or its delegation changed.
Variants(op) ==
    IF Falsy(op.userOp) \/ Falsy(op.typedDataToSign) THEN {}
    ELSE { [op EXCEPT !.userOp.sender = "0xOther"],
           [op EXCEPT !.userOp.nonce = <<8>>],
           [op EXCEPT !.userOp.nonce = <<0>> \o @],
           [op EXCEPT !.userOp.callData = "0xOtherCall"],
           [op EXCEPT !.userOp.callGasLimit = <<1, 1>>],
           [op EXCEPT !.userOp.maxFeePerGas = <<2, 6>>],
           [op EXCEPT !.userOp.paymaster = "0xPaymaster", !.userOp.paymasterData = "0x"],
           [op EXCEPT !.userOp.factory = "0xFactory", !.userOp.factoryData = "0xInit"],
           [op EXCEPT !.userOp.signature = [scheme |-> "other"]],
           [op EXCEPT !.typedDataToSign.domain.chainId = 2],
           [op EXCEPT !.delegation = NoKey],
           [op EXCEPT !.delegation = UnsignedDelegation] }

\* A second signOperation call with the same key and account type, made once
\* the first has resolved: on the same operation object, on the operation the
\* first call returned, or on a variant of the first operation.
SignOperationAgain ==
    /\ apc = "direct" /\ spc = "resolved" /\ earlier = NoKey
    /\ earlier' = [input |-> inputOp, object |-> operation, output |-> sres.value,
                 calls |-> trace]
    /\ \E op \in {operation, sres.value} \cup Variants(inputOp) :
          EnterSignOperation(op, key, accountType)
    /\ UNCHANGED <<quote, idx, apc, callerType, solanaKeypair, solanaAccount, ares, input>>

\* The account's signAuthorization is deterministic: asked again for the
\* tuple it signed in the first call, it reports the parity it reported then.
SameAnswer ==
    (/\ earlier # NoKey
     /\ earlier.input.delegation # NoKey
     /\ AuthTupleOf(operation) = AuthTupleOf(earlier.input)) =>
        /\ spc' = "signMessage"
        /\ operation'.delegation.signature.yParity = earlier.object.delegation.signature.yParity

InitSignPair == InitSignOp

NextSignPair ==
    \/ SignOperationCall /\ UNCHANGED <<monVars, earlier>>
    \/ SignOperationAgain /\ UNCHANGED monVars
    \/ AuthorizationReturns /\ SameAnswer /\ UNCHANGED <<monVars, earlier>>
    \/ AuthorizationFails /\ UNCHANGED <<monVars, earlier>>
    \/ MessageSigned /\ UNCHANGED <<monVars, earlier>>
    \/ MessageFails /\ UNCHANGED <<monVars, earlier>>
    \/ TypedDataSigned /\ UNCHANGED <<monVars, earlier>>
    \/ TypedDataFails /\ UNCHANGED <<monVars, earlier>>

SpecSignPair == InitSignPair /\ [][NextSignPair]_vars


InitSignIdle ==
    /\ quote = NoKey /\ idx = 0 /\ apc = "idle" /\ spc = "idle"
    /\ accountType = Absent /\ callerType = Absent
    /\ solanaKeypair = Null /\ solanaAccount = Null
    /\ operation = NoKey /\ key = Absent
    /\ sres = NoKey /\ ares = NoKey /\ input = NoKey /\ inputOp = NoKey /\ trace = <<>>
    /\ earlier = NoKey

InitMon ==
    /\ now = 0
    /\ timeout \in 0..MaxTimeout
    /\ pollInterval \in 1..MaxInterval
    /\ mon = [i \in {1} |-> InitMonitor]
    /\ agg = NoAggregate
    /\ wft = NoWait
    /\ InitSignIdle

NextMon ==
    \/ \E i \in DOMAIN mon : MonitorStart(i) /\ UNCHANGED <<agg, wft, signVars>>
    \/ \E i \in DOMAIN mon : QueryReturns(i) /\ UNCHANGED <<agg, wft, signVars>>
    \/ \E i \in DOMAIN mon : QueryFails(i) /\ UNCHANGED <<agg, wft, signVars>>
    \/ \E i \in DOMAIN mon : WaitDone(i) /\ UNCHANGED <<agg, wft, signVars>>
    \/ Tick /\ UNCHANGED <<agg, wft, signVars>>

SpecMon == InitMon /\ [][NextMon]_vars

\* waitForTransaction is called with a maxRetries option.
InitWait ==
    /\ now = 0
    /\ timeout \in 0..MaxTimeout
    /\ pollInterval \in 1..MaxInterval
    /\ mon = [i \in {1} |-> InitMonitor]
    /\ agg = NoAggregate
    /\ \E n \in -1..MaxRetries : wft = [NoWait EXCEPT !.pc = "idle", !.maxRetries = n]
    /\ InitSignIdle

NextWait ==
    \/ WaitStart /\ UNCHANGED signVars
    \/ WaitMonitorStep /\ UNCHANGED signVars
    \/ WaitAttemptSucceeded /\ UNCHANGED signVars
    \/ WaitAttemptFailed /\ UNCHANGED signVars
    \/ WaitRetry /\ UNCHANGED signVars
    \/ wft.pc # "idle" /\ Tick /\ UNCHANGED <<agg, wft, signVars>>

SpecWait == InitWait /\ [][NextWait]_vars

\* The clock starts with the call: the monitors measure time from it.
InitMulti ==
    /\ now = 0
    /\ timeout \in 0..MaxTimeout
    /\ pollInterval \in 1..MaxInterval
    /\ mon = [i \in Quotes |-> InitMonitor]
    /\ agg = NoAggregate
    /\ wft = NoWait
    /\ InitSignIdle

NextMulti ==
    \/ MultiStart /\ UNCHANGED <<wft, signVars>>
    \/ \E i \in Quotes : MultiStep(i) /\ UNCHANGED <<wft, signVars>>
    \/ agg.pc # "idle" /\ Tick /\ UNCHANGED <<agg, wft, signVars>>

SpecMulti == InitMulti /\ [][NextMulti]_vars

\* The same monitor with what its progress rests on: a call that has been made
\* runs, every fetchExecutionStatus settles, every timer that is due fires,
\* and the clock advances.
SpecMonFair ==
    /\ InitMon /\ [][NextMon]_vars
    /\ WF_vars(MonitorStart(1) /\ UNCHANGED <<agg, wft, signVars>>)
    /\ WF_vars((QueryReturns(1) \/ QueryFails(1)) /\ UNCHANGED <<agg, wft, signVars>>)
    /\ WF_vars(WaitDone(1) /\ UNCHANGED <<agg, wft, signVars>>)
    /\ WF_vars(Tick /\ UNCHANGED <<agg, wft, signVars>>)

(***************************************************************************)
(* Properties of the completion monitor, checked under SpecMon.            *)
(***************************************************************************)
NonTerminal == {"PENDING", "IN_PROGRESS", "EXECUTED"}

\* A step of monitor i (anything but the passing of time).
MonitorStep(i) == mon'[i] # mon[i]

\* C1: whenever a status poll has returned FAILED or REFUNDED, the monitor has
\* rejected at once with the error naming that status: it is in no further
\* query and in no further wait.
C1_TerminalFailureRejectsAtOnce ==
    \A i \in DOMAIN mon :
        mon[i].status \in {"FAILED", "REFUNDED"} =>
            /\ mon[i].pc = "rejected"
            /\ mon[i].error = StatusErrorMessage(mon[i].status)

\* C2: the monitor rejects with the timeout error only when no poll returned
\* a terminal status before the deadline.
C2_TimeoutOnlyWithoutTerminalStatus ==
    \A i \in DOMAIN mon :
        (mon[i].pc = "rejected" /\ mon[i].error = TimeoutMessage) => mon[i].terminalSeen = {}

\* C3: a poll that returns COMPLETED resolves the monitor with no further poll
\* and no further wait; a poll that returns PENDING, IN_PROGRESS or EXECUTED
\* starts a wait of pollInterval, after which the monitor polls again if the
\* deadline has not passed (and otherwise ends with the timeout error).
C3_CompletedEndsOthersKeepPolling ==
    [][\A i \in DOMAIN mon :
          /\ (mon[i].pc = "query" /\ MonitorStep(i) /\ mon'[i].status = "COMPLETED") =>
                /\ mon'[i].pc = "resolved"
                /\ mon'[i].polls = mon[i].polls
                /\ mon'[i].waits = mon[i].waits
          /\ (mon[i].pc = "query" /\ MonitorStep(i) /\ mon'[i].status \in NonTerminal) =>
                /\ mon'[i].pc = "wait"
                /\ mon'[i].due = now + pollInterval
                /\ mon'[i].waits = mon[i].waits + 1
                /\ mon'[i].polls = mon[i].polls
          /\ (mon[i].pc = "wait" /\ mon[i].status \in NonTerminal /\ MonitorStep(i)) =>
                /\ now >= mon[i].due
                /\ IF now - mon[i].startTime < timeout
                   THEN mon'[i].pc = "query" /\ mon'[i].polls = mon[i].polls + 1
                   ELSE mon'[i].pc = "rejected" /\ mon'[i].error = TimeoutMessage
          /\ mon[i].pc = "resolved" => ~MonitorStep(i)
      ]_vars

\* A monitor that resolved on COMPLETED after at least one non-terminal poll and wait.
C3_Witness ==
    \E i \in DOMAIN mon :
        /\ mon[i].pc = "resolved" /\ mon[i].status = "COMPLETED"
        /\ mon[i].polls >= 2 /\ mon[i].waits >= 1 /\ mon[i].caught = Absent

\* C4: a status query that throws never ends the loop: the monitor waits
\* pollInterval and polls again while the deadline has not passed, and the
\* caller never receives the query error, only the timeout error once the
\* deadline has passed.
C4_QueryErrorNeverEndsLoop ==
    /\ [][\A i \in DOMAIN mon :
            /\ (mon[i].pc = "query" /\ MonitorStep(i) /\ mon'[i].status = "error") =>
                  /\ mon'[i].pc = "wait"
                  /\ mon'[i].due = now + pollInterval
                  /\ mon'[i].waits = mon[i].waits + 1
            /\ (mon[i].pc = "wait" /\ mon[i].status = "error" /\ MonitorStep(i)) =>
                  IF now - mon[i].startTime < timeout
                  THEN mon'[i].pc = "query" /\ mon'[i].polls = mon[i].polls + 1
                  ELSE mon'[i].pc = "rejected" /\ mon'[i].error = TimeoutMessage
         ]_vars
    /\ [](\A i \in DOMAIN mon :
            /\ mon[i].error # "query error"
            /\ (mon[i].pc = "rejected" /\ mon[i].status = "error") =>
                  /\ mon[i].error = TimeoutMessage
                  /\ now - mon[i].startTime >= timeout)

\* A monitor that polled again after a failed query, and one that resolved after it.
C4_Witness ==
    \E i \in DOMAIN mon :
        /\ mon[i].caught = "query error" /\ mon[i].polls >= 2
        /\ mon[i].pc = "resolved"

(***************************************************************************)
(* Properties of signAllOperations, checked under SpecSignAll.             *)
(***************************************************************************)
InputOps == input.originChainsOperations

\* The operation without its signature fields (userOp.signature,
\* delegation.signature, the Solana signature).
SignatureFree(op) ==
    [op EXCEPT !.signature = NoKey,
               !.userOp = IF @ = NoKey \/ @ = Null THEN @ ELSE [@ EXCEPT !.signature = NoKey],
               !.delegation = IF @ = NoKey THEN @ ELSE [@ EXCEPT !.signature = NoKey]]

\* The two kinds of entry signAllOperations is documented to sign.
SolanaEligible(op) == op.type = "solana" /\ solanaKeypair # Null /\ solanaAccount # Null
EvmEligible(op) == ~SolanaEligible(op) /\ op.userOp # NoKey /\ op.typedDataToSign # NoKey

EvmCalls == {"signAuthorization", "getUserOperationHash", "signMessage", "signTypedData"}
UserOpHashCalls == {"signAuthorization", "getUserOperationHash", "signMessage"}

C6_ModeFollowsSuppliedAccountType ==
    \A k \in 1..Len(trace) :
        /\ (callerType = "role-based" /\ trace[k].call \in EvmCalls) =>
               trace[k].call = "signTypedData"
        /\ (callerType \in {"kernel-v3.1-ecdsa", "kernel-v3.3-ecdsa"} /\ trace[k].call \in EvmCalls) =>
               trace[k].call \in UserOpHashCalls

\* C7: when the signing of an operation fails the pass stops there: the call
\* rejects with the signer's error, no later operation has been signed or is
\* signed afterwards, and a quote is returned only with every eligible
\* operation signed.
C7_FailureAbortsPass ==
    /\ [](apc = "rejected" =>
            /\ ares.kind = "error" /\ ares.value = NoKey
            /\ idx <= Len(Ops)
            /\ IF SolanaEligible(InputOps[idx])
               THEN ares.error \in {"dataToSign is required for Solana operation signing",
                                    "Cannot sign with non signer key"}
               ELSE ares.error = sres.error /\ sres.kind = "error"
            /\ \A j \in (idx + 1)..Len(Ops) : Ops[j] = InputOps[j]
            /\ \A k \in 1..Len(trace) : trace[k].index <= idx)
    /\ [](apc = "resolved" =>
            \A i \in 1..Len(InputOps) :
               /\ SolanaEligible(InputOps[i]) =>
                     ares.value.originChainsOperations[i].signature # NoKey
               /\ EvmEligible(InputOps[i]) =>
                     ares.value.originChainsOperations[i].userOp.signature.scheme = "personal")
    /\ [][(apc = "awaitSign" /\ spc = "rejected") => apc' = "rejected"]_vars
    /\ [][apc = "rejected" => UNCHANGED vars]_vars

\* A pass that failed at a middle entry: the entry before it was signed, an
\* eligible entry behind it was not.
C7_Witness ==
    /\ apc = "rejected"
    /\ 1 < idx /\ idx < Len(Ops)
    /\ Ops[1] # InputOps[1]
    /\ \E j \in (idx + 1)..Len(Ops) : EvmEligible(InputOps[j]) \/ SolanaEligible(InputOps[j])

\* C8: an entry that is neither signable as Solana nor an EVM operation is
\* never touched (it is at its index, unchanged, during and after the pass),
\* no library call is made for it and the pass never fails at it.
C8_UnsignableEntryPassedThrough ==
    \A i \in 1..Len(InputOps) :
        (~SolanaEligible(InputOps[i]) /\ ~EvmEligible(InputOps[i])) =>
            /\ Ops[i] = InputOps[i]
            /\ apc = "resolved" => ares.value.originChainsOperations[i] = InputOps[i]
            /\ apc = "rejected" => idx # i
            /\ \A k \in 1..Len(trace) : trace[k].index # i

\* A returned quote whose Solana operation went through unsigned because the
\* keypair or the account was missing, next to an entry that was signed.
C8_Witness ==
    /\ apc = "resolved"
    /\ \E i, j \in 1..Len(InputOps) :
         /\ InputOps[i].type = "solana"
         /\ solanaKeypair = Null \/ solanaAccount = Null
         /\ ares.value.originChainsOperations[i] = InputOps[i]
         /\ ares.value.originChainsOperations[j] # InputOps[j]

(***************************************************************************)
(* Properties of signOperation, checked under SpecSignOp.                  *)
(***************************************************************************)
KernelCall == callerType \in {"kernel-v3.1-ecdsa", "kernel-v3.3-ecdsa"}
RoleBasedCall == callerType \in {"role-based", Absent}

\* C9: the account type alone selects the mode.  KernelV31 and KernelV33: only
\* the UserOperation-hash calls are made and the signature is the raw-message
\* signature of the UserOperation hash.  RoleBased and the default: only
\* signTypedData is called, on the typed-data descriptor, no UserOperation hash
\* is computed, and the delegation is the input's in the operation and in the result.
C9_ModeFromAccountTypeAlone ==
    /\ KernelCall =>
          /\ \A k \in 1..Len(trace) : trace[k].call \in UserOpHashCalls
          /\ spc = "resolved" =>
                /\ sres.value.userOp.signature.scheme = "personal"
                /\ sres.value.userOp.signature.over = UserOpHashOf(inputOp)
                /\ \E k \in 1..Len(trace) : trace[k].call = "getUserOperationHash"
    /\ RoleBasedCall =>
          /\ \A k \in 1..Len(trace) :
                trace[k].call = "signTypedData" /\ trace[k].over = inputOp.typedDataToSign
          /\ spc # "idle" => operation.delegation = inputOp.delegation
          /\ spc = "resolved" =>
                /\ sres.value.userOp.signature.scheme = "eip712"
                /\ sres.value.userOp.signature.over = inputOp.typedDataToSign
                /\ sres.value.delegation = inputOp.delegation

\* A default (RoleBased) call that signed an operation carrying a delegation.
C9_Witness ==
    /\ callerType = Absent
    /\ spc = "resolved"
    /\ inputOp.delegation # NoKey
    /\ sres.value.userOp.signature.scheme = "eip712"

\* C10: when the operation lacks a field the selected mode requires (Kernel:
\* userOp or the domain's chainId; otherwise: typedDataToSign) signOperation
\* rejects with that mode's error, has made no signing call and has not
\* changed the operation.
C10_MissingFieldFailsWithoutMutation ==
    LET typedMissing == inputOp.typedDataToSign = NoKey \/ inputOp.typedDataToSign = Null
        missing == IF KernelCall
                   THEN \/ inputOp.userOp = NoKey \/ inputOp.userOp = Null
                        \/ typedMissing
                        \/ inputOp.typedDataToSign.domain.chainId = 0
                   ELSE typedMissing
    IN  (spc # "idle" /\ missing) =>
            /\ spc = "rejected"
            /\ sres.kind = "error"
            /\ sres.error = IF KernelCall
                            THEN "UserOperation and Chain ID are required for Kernel signing."
                            ELSE "TypedData is required for role-based account signing."
            /\ operation = inputOp
            /\ trace = <<>>

\* A Kernel call rejected for the missing chainId, on an operation with a delegation.
C10_Witness ==
    /\ KernelCall
    /\ spc = "rejected"
    /\ inputOp.userOp # Null
    /\ inputOp.typedDataToSign # Null /\ inputOp.typedDataToSign # NoKey
    /\ inputOp.typedDataToSign.domain.chainId = 0
    /\ inputOp.delegation # NoKey
    /\ operation.delegation.signature = NoKey

\* Whether the library call `name` has been made.
Called(name) == \E k \in 1..Len(trace) : trace[k].call = name

KernelReady ==
    /\ KernelCall
    /\ spc # "idle"
    /\ inputOp.userOp # NoKey /\ inputOp.userOp # Null
    /\ inputOp.typedDataToSign # NoKey /\ inputOp.typedDataToSign # Null
    /\ inputOp.typedDataToSign.domain.chainId # 0

\* C11 as stated: in UserOperation-hash mode an authorization is signed only
\* for a delegation that is present and carries no signature; without a
\* delegation the output has none, and a signature already present is
\* neither signed again nor overwritten.
C11_OnlyUnsignedDelegationSigned ==
    KernelReady =>
        /\ inputOp.delegation = NoKey =>
              /\ ~Called("signAuthorization")
              /\ spc = "resolved" => sres.value.delegation = NoKey
        /\ (inputOp.delegation # NoKey /\ inputOp.delegation.signature # NoKey) =>
              /\ ~Called("signAuthorization")
              /\ operation.delegation.signature = inputOp.delegation.signature

\* C11 as amended: in UserOperation-hash mode an authorization is signed
\* whenever the operation carries a delegation, signed already or not, and the
\* new signature replaces the one that was there; without a delegation no
\* authorization is signed and the output has no delegation.
C11_DelegationSignedWheneverPresent ==
    KernelReady =>
        /\ inputOp.delegation = NoKey =>
              /\ ~Called("signAuthorization")
              /\ operation.delegation = NoKey
              /\ spc = "resolved" => sres.value.delegation = NoKey
        /\ inputOp.delegation # NoKey =>
              /\ Called("signAuthorization")
              /\ trace[1].over = [contractAddress |-> inputOp.delegation.contractAddress,
                                  nonce |-> inputOp.delegation.nonce,
                                  chainId |-> inputOp.typedDataToSign.domain.chainId]
              /\ spc \in {"signMessage", "resolved"} =>
                    /\ operation.delegation.signature # NoKey
                    /\ operation.delegation.signature.r.signer = key
                    /\ operation.delegation.signature.nonce = inputOp.delegation.nonce
              /\ spc = "resolved" =>
                    sres.value.delegation.signature = operation.delegation.signature

\* A Kernel signing that replaced the signature a delegation already carried.
C11_Witness ==
    /\ KernelReady
    /\ spc = "resolved"
    /\ inputOp.delegation # NoKey
    /\ inputOp.delegation.signature = StaleDelegationSignature
    /\ sres.value.delegation.signature # StaleDelegationSignature

\* C12: a Kernel-mode signing of an operation with an unsigned delegation
\* yields userOp.signature and a delegation.signature of type Signed with the
\* input delegation's contractAddress and nonce, the chainId of the typed-data
\* domain, and r, s, v and yParity of the signed authorization.
C12_SignedDelegationMatchesInput ==
    (KernelReady /\ spc = "resolved" /\ inputOp.delegation # NoKey
        /\ inputOp.delegation.signature = NoKey) =>
        LET out == sres.value
            sig == out.delegation.signature
            tuple == [contractAddress |-> inputOp.delegation.contractAddress,
                      nonce |-> inputOp.delegation.nonce,
                      chainId |-> inputOp.typedDataToSign.domain.chainId]
        IN  /\ out.userOp.signature.scheme = "personal"
            /\ out.userOp.signature.signer = key
            /\ sig # NoKey
            /\ sig.type = "Signed"
            /\ sig.contractAddress = inputOp.delegation.contractAddress
            /\ sig.nonce = inputOp.delegation.nonce
            /\ sig.chainId = inputOp.typedDataToSign.domain.chainId
            /\ sig.r = [part |-> "r", signer |-> key, over |-> tuple]
            /\ sig.s = [part |-> "s", signer |-> key, over |-> tuple]
            /\ sig.yParity \in {0, 1}
            /\ sig.v = IF sig.yParity = 0 THEN <<1, 11>> ELSE <<1, 12>>
            /\ out.delegation.contractAddress = inputOp.delegation.contractAddress
            /\ out.delegation.nonce = inputOp.delegation.nonce

\* A KernelV33 signing of an operation with an unsigned delegation, parity 1.
C12_Witness ==
    /\ callerType = "kernel-v3.3-ecdsa"
    /\ spc = "resolved"
    /\ inputOp.delegation # NoKey
    /\ inputOp.delegation.signature = NoKey
    /\ sres.value.delegation.signature.yParity = 1

\* C13: signOperation goes on to sign the UserOperation only with a parity
\* bit; when signAuthorization reports none it rejects with 'Y parity is
\* required', and then delegation.signature and userOp.signature are as they
\* were and no signMessage call was made.
C13_MissingParityFailsBeforeAnyWrite ==
    /\ [][(spc = "signAuthorization" /\ spc' # "signAuthorization"
             /\ ~(spc' = "rejected" /\ sres'.error = "signer error")) =>
            IF operation'.delegation.signature # operation.delegation.signature
            THEN /\ operation'.delegation.signature.yParity \in {0, 1}
                 /\ spc' = "signMessage"
            ELSE /\ spc' = "rejected"
                 /\ sres'.error = "Y parity is required"
         ]_vars
    /\ []((spc = "rejected" /\ sres.error = "Y parity is required") =>
            /\ sres.kind = "error" /\ sres.value = NoKey
            /\ operation = inputOp
            /\ ~Called("signMessage")
            /\ ~Called("getUserOperationHash"))

\* A signing rejected for the missing parity bit.
C13_Witness ==
    /\ spc = "rejected"
    /\ sres.error = "Y parity is required"
    /\ Called("signAuthorization")
    /\ operation.delegation.signature = NoKey

\* C14: signSolanaOperation on an operation without dataToSign throws
\* 'dataToSign is required for Solana operation signing' before any decoding
\* or signing call, and the operation stays without a signature.
C14_MissingDataToSignFailsBeforeDecoding ==
    /\ [][(apc = "loop" /\ idx <= Len(Ops) /\ Ops[idx].type = "solana"
             /\ solanaKeypair # Null /\ solanaAccount # Null
             /\ Ops[idx].dataToSign = NoKey) =>
            /\ apc' = "rejected"
            /\ ares'.kind = "error" /\ ares'.value = NoKey
            /\ ares'.error = "dataToSign is required for Solana operation signing"
            /\ trace' = trace
            /\ quote' = quote
         ]_vars
    /\ []((apc = "rejected" /\ InputOps[idx].type = "solana"
             /\ InputOps[idx].dataToSign = NoKey) =>
            /\ ares.error = "dataToSign is required for Solana operation signing"
            /\ Ops[idx].signature = NoKey
            /\ \A k \in 1..Len(trace) : trace[k].index # idx)

\* The pass failed at a Solana operation without dataToSign, after it had
\* signed an earlier entry.
C14_Witness ==
    /\ apc = "rejected"
    /\ ares.error = "dataToSign is required for Solana operation signing"
    /\ InputOps[idx].dataToSign = NoKey
    /\ idx > 1 /\ Ops[1] # InputOps[1]

\* C15: signSolanaOperation changes only the signature: every other field of
\* a Solana operation is what it was in the input, the signature is absent
\* until the signer has run on the operation, and present afterwards.
C15_SolanaSigningChangesOnlySignature ==
    \A i \in 1..Len(InputOps) :
        InputOps[i].type = "solana" =>
            /\ Ops[i].type = "solana"
            /\ Ops[i].instructions = InputOps[i].instructions
            /\ Ops[i].recentBlockHash = InputOps[i].recentBlockHash
            /\ Ops[i].feePayer = InputOps[i].feePayer
            /\ Ops[i].assetType = InputOps[i].assetType
            /\ Ops[i].amount = InputOps[i].amount
            /\ Ops[i].dataToSign = InputOps[i].dataToSign
            /\ InputOps[i].signature = NoKey
            /\ Ops[i].signature # NoKey <=>
                  /\ i < idx
                  /\ solanaKeypair # Null /\ solanaAccount # Null
                  /\ \E k \in 1..Len(trace) :
                        trace[k].index = i /\ trace[k].call = "transaction.sign"
            /\ apc = "resolved" => ares.value.originChainsOperations[i] = Ops[i]

\* A returned quote with a Solana operation whose signature was attached and
\* whose dataToSign is the input's.
C15_Witness ==
    /\ apc = "resolved"
    /\ \E i \in 1..Len(InputOps) :
         /\ InputOps[i].type = "solana"
         /\ Ops[i].signature # NoKey
         /\ Ops[i].signature # InputOps[i].signature
         /\ Ops[i].dataToSign = InputOps[i].dataToSign

\* C20: signAllOperations returns the quote object it was given, and during
\* and after the pass, ended by return or by an error, the quote's id,
\* accounts, destinationChainOperation, token metadata, expirationTimestamp
\* and tamperProofSignature are those of the input and originChainsOperations
\* has the input's length.
C20_OnlyOriginOperationsChange ==
    /\ quote.id = input.id
    /\ quote.accounts = input.accounts
    /\ quote.destinationChainOperation = input.destinationChainOperation
    /\ quote.originToken = input.originToken
    /\ quote.destinationToken = input.destinationToken
    /\ quote.expirationTimestamp = input.expirationTimestamp
    /\ quote.tamperProofSignature = input.tamperProofSignature
    /\ DOMAIN quote = DOMAIN input
    /\ Len(quote.originChainsOperations) = Len(input.originChainsOperations)
    /\ apc = "resolved" => ares.kind = "value" /\ ares.value = quote

\* A pass that failed after it had replaced an entry of the quote.
C20_Witness ==
    /\ apc = "rejected"
    /\ quote.originChainsOperations # input.originChainsOperations
    /\ quote.tamperProofSignature = input.tamperProofSignature

\* C18 as stated: with the results PENDING, IN_PROGRESS, COMPLETED and a
\* timeout larger than two poll intervals the monitor does not time out, and
\* it resolves after exactly 3 queries and 2 waits.
C18_ThreeQueriesWheneverTimeoutExceedsTwoIntervals ==
    timeout > 2 * pollInterval =>
        /\ mon[1].script \in {1, 2} => mon[1].pc # "rejected"
        /\ mon[1].script = 3 =>
              mon[1].pc = "resolved" /\ mon[1].polls = 3 /\ mon[1].waits = 2

\* C18 as amended: with the results PENDING, IN_PROGRESS, COMPLETED the
\* monitor resolves after exactly 3 queries and exactly 2 waits (one after
\* each of the first two results, none after COMPLETED), at least two poll
\* intervals after its start, provided the second and the third query start
\* less than timeout after the start; when a query or a timer is so late that
\* the elapsed time has reached the timeout, the monitor rejects with the
\* timeout error instead, however large the timeout is against the interval.
C18_ThreeQueriesWhenStartedBeforeDeadline ==
    /\ mon[1].script = 3 =>
          /\ mon[1].pc = "resolved" /\ mon[1].completed
          /\ mon[1].polls = 3 /\ mon[1].waits = 2
          /\ now - mon[1].startTime >= 2 * pollInterval
          /\ timeout > 2 * pollInterval
    /\ mon[1].script \in {1, 2} =>
          /\ mon[1].pc \in {"wait", "query", "rejected"}
          /\ mon[1].waits = mon[1].script
          /\ mon[1].polls = mon[1].script + (IF mon[1].pc = "query" THEN 1 ELSE 0)
          /\ mon[1].pc = "rejected" =>
                /\ mon[1].error = TimeoutMessage
                /\ now - mon[1].startTime >= timeout
          /\ mon[1].pc = "query" => mon[1].due - mon[1].startTime < timeout

\* The monitor resolved on the third result, later than two poll intervals
\* after its start.
C18_Witness ==
    /\ mon[1].script = 3
    /\ mon[1].pc = "resolved"
    /\ now - mon[1].startTime > 2 * pollInterval

\* C19: when every call made runs, every status query settles, every timer
\* fires and the clock advances, the monitor eventually settles, whatever
\* the statuses and query errors are; it resolves only on COMPLETED and
\* rejects only with the timeout error once the deadline has passed.
C19_MonitorEventuallySettles ==
    /\ <>(mon[1].pc \in {"resolved", "rejected"})
    /\ [](mon[1].pc = "resolved" => mon[1].completed /\ mon[1].status = "COMPLETED")
    /\ [](mon[1].pc = "rejected" =>
            /\ mon[1].error = TimeoutMessage
            /\ ~mon[1].completed
            /\ now - mon[1].startTime >= timeout)

\* A monitor that went through a failed query and a non-terminal status and
\* ended at the deadline.
C19_Witness ==
    /\ mon[1].pc = "rejected"
    /\ mon[1].polls >= 2
    /\ mon[1].caught = "query error"
    /\ mon[1].status \in NonTerminal

Settled == {"resolved", "rejected"}

\* C16 as stated: monitorMultipleTransactions settles only once every monitor
\* has settled, and resolves only when every monitor completed.
C16_AggregateSettlesAfterAllMonitors ==
    /\ agg.pc \in Settled => \A i \in DOMAIN mon : mon[i].pc \in Settled
    /\ agg.pc = "resolved" => \A i \in DOMAIN mon : mon[i].completed

\* C16 as amended: monitorMultipleTransactions resolves only once every one
\* of the monitors has resolved on COMPLETED, and it is resolved from then on;
\* it rejects as soon as the first monitor rejects, whatever state the other
\* monitors are in, so that it is rejected exactly when some monitor has
\* rejected and pending while none has and some monitor is still running.
C16_ResolvesAfterAllRejectsAtFirst ==
    agg.pc # "idle" =>
        /\ agg.pc = "resolved" <=>
              \A i \in DOMAIN mon : mon[i].pc = "resolved" /\ mon[i].completed
        /\ agg.pc = "rejected" <=> \E i \in DOMAIN mon : mon[i].pc = "rejected"
        /\ agg.pc \in {"pending", "resolved", "rejected"}
        /\ agg.pc = "rejected" => mon[agg.by].pc = "rejected" /\ now >= agg.at

\* The aggregate is rejected while another monitor is waiting for the result
\* of its status query.
C16_Witness ==
    /\ agg.pc = "rejected"
    /\ \E j \in DOMAIN mon : j # agg.by /\ mon[j].pc = "query"

\* C17: the aggregate rejects with the error of the monitor that rejected
\* first and stays rejected; the other monitors are not cancelled: after the
\* rejection each of them still takes the steps of its own loop (the result
\* of its query in flight ends it on COMPLETED and starts a wait otherwise,
\* a wait ends in the next query or in its own timeout error).
C17_AggregateFailsSiblingsKeepRunning ==
    /\ [](agg.pc = "rejected" =>
            /\ agg.by \in DOMAIN mon
            /\ mon[agg.by].pc = "rejected"
            /\ agg.error = mon[agg.by].error
            /\ \A j \in DOMAIN mon :
                  /\ mon[j].pc \in {"query", "wait", "resolved", "rejected"}
                  /\ mon[j].pc = "rejected" =>
                        /\ mon[j].error = TimeoutMessage
                        /\ now - mon[j].startTime >= timeout)
    /\ [][agg.pc = "rejected" =>
            /\ agg' = agg
            /\ \A j \in DOMAIN mon :
                  /\ (mon[j].pc = "query" /\ MonitorStep(j)) =>
                        IF mon'[j].status = "COMPLETED"
                        THEN mon'[j].pc = "resolved"
                        ELSE mon'[j].pc = "wait" /\ mon'[j].due = now + pollInterval
                  /\ (mon[j].pc = "wait" /\ MonitorStep(j)) =>
                        /\ now >= mon[j].due
                        /\ IF now - mon[j].startTime < timeout
                           THEN mon'[j].pc = "query"
                           ELSE mon'[j].pc = "rejected" /\ mon'[j].error = TimeoutMessage
                  /\ mon[j].pc \in Settled => ~MonitorStep(j)
         ]_vars
    /\ [](agg.pc = "rejected" =>
            \A j \in DOMAIN mon :
               (mon[j].pc = "query" \/ (mon[j].pc = "wait" /\ now >= mon[j].due)) =>
                   ENABLED (MultiStep(j) /\ UNCHANGED signVars))

\* After the aggregate rejected, another monitor received a non-terminal
\* status from its query in flight and started a wait.
C17_Witness ==
    /\ agg.pc = "rejected"
    /\ \E j \in DOMAIN mon :
         /\ j # agg.by
         /\ mon[j].pc = "wait"
         /\ mon[j].due - pollInterval > agg.at
         /\ mon[j].status \in NonTerminal

\* C30: the only field of the caller's operation that signOperation writes
\* is delegation.signature, and only in UserOperation-hash mode with a
\* delegation; userOp.signature is set in the returned copy alone, and when
\* signMessage fails after the authorization was signed the caller's
\* operation keeps the delegation.signature just written.
C30_OnlyDelegationSignatureWrittenInPlace ==
    spc # "idle" =>
        /\ operation.type = inputOp.type
        /\ operation.userOp = inputOp.userOp
        /\ operation.typedDataToSign = inputOp.typedDataToSign
        /\ DOMAIN operation = DOMAIN inputOp
        /\ IF inputOp.delegation = NoKey
           THEN operation.delegation = NoKey
           ELSE /\ operation.delegation.contractAddress = inputOp.delegation.contractAddress
                /\ operation.delegation.nonce = inputOp.delegation.nonce
        /\ operation # inputOp =>
              /\ accountType \in {"kernel-v3.1-ecdsa", "kernel-v3.3-ecdsa"}
              /\ Called("signAuthorization")
              /\ spc \in {"signMessage", "resolved", "rejected"}
              /\ operation.delegation.signature.r.signer = key
        /\ (spc = "resolved" /\ inputOp.userOp # Null) =>
              /\ sres.value.userOp.signature.signer = key
              /\ sres.value.userOp.signature.scheme \in {"personal", "eip712"}
              /\ operation.userOp.signature = PlaceholderSignature
        /\ (spc = "rejected" /\ Called("signMessage")) =>
              /\ sres.error = "signer error"
              /\ inputOp.delegation # NoKey =>
                    /\ operation.delegation.signature # inputOp.delegation.signature
                    /\ operation.delegation.signature.type = "Signed"

\* signMessage failed after the delegation of the caller's operation was signed.
C30_Witness ==
    /\ spc = "rejected"
    /\ Called("signMessage")
    /\ inputOp.delegation # NoKey
    /\ inputOp.delegation.signature = NoKey
    /\ operation.delegation.signature # NoKey

\* The calls of the signOperation call in progress (the second one once it
\* has begun), and the hash a call computed.
CurrentCalls ==
    IF earlier = NoKey THEN trace
    ELSE SubSeq(trace, Len(earlier.calls) + 1, Len(trace))
Hashed(calls) == \E k \in 1..Len(calls) : calls[k].call = "getUserOperationHash"
HashIn(calls) ==
    calls[CHOOSE k \in 1..Len(calls) : calls[k].call = "getUserOperationHash"].over
BothHashed == earlier # NoKey /\ Hashed(earlier.calls) /\ Hashed(CurrentCalls)

\* C22: signOperation called again with the same key on the operation it was
\* called on, or on the operation it returned, fails only if the signer
\* fails, and returns what the first call returned: the same userOp.signature,
\* made by the key over the hash computed, and the same delegation signature.
C22_SigningAgainGivesSameSignature ==
    (earlier # NoKey /\ KernelCall /\ inputOp \in {earlier.object, earlier.output}) =>
        /\ spc # "idle"
        /\ spc = "rejected" => sres.error = "signer error"
        /\ spc = "resolved" =>
              /\ sres.value.userOp.signature = earlier.output.userOp.signature
              /\ sres.value.userOp.signature.scheme = "personal"
              /\ sres.value.userOp.signature.signer = key
              /\ sres.value.userOp.signature.over = HashIn(CurrentCalls)
              /\ HashIn(CurrentCalls) = HashIn(earlier.calls)
              /\ sres.value.delegation = earlier.output.delegation
              /\ sres.value = earlier.output

\* An operation with a delegation that was signed, and whose signed copy was
\* signed again.
C22_Witness ==
    /\ earlier # NoKey /\ KernelCall
    /\ spc = "resolved"
    /\ inputOp = earlier.output
    /\ inputOp.delegation # NoKey
    /\ earlier.input.delegation.signature = NoKey

\* The fields C23 lists, as they are in the operation.
ListedFields(op) ==
    <<op.userOp.sender, op.userOp.nonce, op.userOp.callData, op.userOp.callGasLimit,
      op.userOp.verificationGasLimit, op.userOp.preVerificationGas, op.userOp.maxFeePerGas,
      op.userOp.maxPriorityFeePerGas, op.userOp.paymasterVerificationGasLimit,
      op.userOp.paymasterPostOpGasLimit, op.typedDataToSign.domain.chainId>>

\* What the hash is made of: the listed fields by their numbers, and the
\* factory and paymaster fields.
HashedFields(op) ==
    <<op.userOp.sender, BigInt(op.userOp.nonce), op.userOp.callData,
      BigInt(op.userOp.callGasLimit), BigInt(op.userOp.verificationGasLimit),
      BigInt(op.userOp.preVerificationGas), BigInt(op.userOp.maxFeePerGas),
      BigInt(op.userOp.maxPriorityFeePerGas),
      BigInt(op.userOp.paymasterVerificationGasLimit),
      BigInt(op.userOp.paymasterPostOpGasLimit),
      op.typedDataToSign.domain.chainId,
      op.userOp.factory, op.userOp.factoryData, op.userOp.paymaster,
      op.userOp.paymasterData>>

C25_DelegationSignedBeforeHashAndApart ==
    (KernelCall /\ spc # "idle" /\ inputOp.delegation # NoKey
        /\ ~(spc = "rejected" /\ CurrentCalls = <<>>)) =>
        /\ CurrentCalls[1].call = "signAuthorization"
        /\ Len(CurrentCalls) \in {1, 3}
        /\ Len(CurrentCalls) = 1 =>
              /\ spc \in {"signAuthorization", "rejected"}
              /\ operation.delegation.signature = inputOp.delegation.signature
        /\ Len(CurrentCalls) = 3 =>
              /\ CurrentCalls[2].call = "getUserOperationHash"
              /\ CurrentCalls[3].call = "signMessage"
              /\ CurrentCalls[3].over = CurrentCalls[2].over
              /\ operation.delegation.signature.type = "Signed"
              /\ operation.delegation.signature.r.signer = key
              /\ spc = "resolved" => sres.value.userOp.signature.over = CurrentCalls[2].over
        /\ (BothHashed /\ earlier.input.userOp = inputOp.userOp
               /\ earlier.input.typedDataToSign = inputOp.typedDataToSign) =>
              HashIn(CurrentCalls) = HashIn(earlier.calls)

\* An operation was signed without a delegation and then with one.
C25_Witness ==
    /\ BothHashed
    /\ spc = "resolved"
    /\ earlier.input.delegation = NoKey
    /\ inputOp.delegation # NoKey
    /\ earlier.input.userOp = inputOp.userOp
    /\ sres.value.userOp.signature = earlier.output.userOp.signature

\* C24: signAllOperations handles the entries one after another in array
\* order.  At every moment of a pass, and after a pass that failed at entry
\* idx, every eligible entry before idx has been replaced by its signed
\* copy, every other entry before idx and every entry after idx is as it
\* was, entry idx itself has not been replaced (only the delegation
\* signature of an operation being signed may have been written), and the
\* library calls were made in the order of the entries.
C24_EntriesSignedInArrayOrder ==
    /\ [](apc # "idle" =>
            /\ idx \in 1..(Len(Ops) + 1)
            /\ \A i \in 1..Len(Ops) :
                  /\ (i < idx /\ SolanaEligible(InputOps[i])) => Ops[i].signature # NoKey
                  /\ (i < idx /\ EvmEligible(InputOps[i])) =>
                        /\ Ops[i].userOp.signature.scheme = "personal"
                        /\ \E k \in 1..Len(trace) :
                              trace[k].index = i /\ trace[k].call = "signMessage"
                  /\ (i < idx /\ ~SolanaEligible(InputOps[i]) /\ ~EvmEligible(InputOps[i])) =>
                        Ops[i] = InputOps[i]
                  /\ i > idx => Ops[i] = InputOps[i]
                  /\ i = idx =>
                        /\ Ops[i].userOp = InputOps[i].userOp
                        /\ Ops[i].signature = InputOps[i].signature
                        /\ Ops[i] # InputOps[i] => apc \in {"awaitSign", "rejected"}
            /\ \A k \in 1..Len(trace) : trace[k].index <= idx
            /\ \A k \in 1..(Len(trace) - 1) : trace[k].index <= trace[k + 1].index)
    /\ [][idx' # idx =>
            /\ idx' = idx + 1
            /\ apc' = "loop"
            /\ \A i \in 1..Len(Ops) : i # idx => Ops'[i] = Ops[i]]_vars

\* The second entry is being signed and its delegation signature has been
\* written; the first entry is signed and the third is as it was.
C24_Witness ==
    /\ apc = "awaitSign"
    /\ idx = 2 /\ Len(Ops) = 3
    /\ Ops[1] # InputOps[1]
    /\ Ops[2].delegation # NoKey
    /\ Ops[2].delegation.signature # InputOps[2].delegation.signature
    /\ EvmEligible(InputOps[3])

\* C26: the signature signSolanaOperation writes into an operation is the
\* supplied account's signature of the operation's message, whatever the
\* number of required signers and the account's position among them.
C26_WrittenSignatureIsTheAccounts ==
    \A i \in 1..Len(InputOps) :
        (InputOps[i].type = "solana" /\ Ops[i].signature # NoKey) =>
            /\ Ops[i].signature.bs58.scheme = "ed25519"
            /\ Ops[i].signature.bs58.signer = solanaKeypair.secretKey
            /\ Ops[i].signature.bs58.over = InputOps[i].dataToSign.message

\* C27: the deadline is tested only before a status query is started: no
\* query is started once the elapsed time has reached the timeout, but the
\* result of a query in flight at the deadline is acted on like any other,
\* and COMPLETED then resolves the monitor.
C27_DeadlineTestedOnlyBeforeAQuery ==
    /\ [][\A i \in DOMAIN mon :
            /\ (mon'[i].pc = "query" /\ mon[i].pc # "query") =>
                  now - mon'[i].startTime < timeout
            /\ (mon[i].pc = "query" /\ MonitorStep(i)
                   /\ now - mon[i].startTime >= timeout) =>
                  /\ mon'[i].lateResult
                  /\ IF mon'[i].status = "COMPLETED"
                     THEN mon'[i].pc = "resolved" /\ mon'[i].completed
                     ELSE mon'[i].pc = "wait" /\ mon'[i].due = now + pollInterval
            /\ (mon[i].pc = "wait" /\ mon[i].lateResult /\ MonitorStep(i)) =>
                  mon'[i].pc = "rejected" /\ mon'[i].error = TimeoutMessage
         ]_vars
    /\ [](\A i \in DOMAIN mon :
            (mon[i].lateResult /\ mon[i].status = "COMPLETED") => mon[i].pc = "resolved")

\* The monitor resolved on a COMPLETED result that arrived when the elapsed
\* time had reached the timeout.
C27_Witness ==
    /\ mon[1].pc = "resolved"
    /\ mon[1].lateResult
    /\ mon[1].status = "COMPLETED"
    /\ mon[1].polls >= 2
    /\ now - mon[1].startTime >= timeout

\* C28: the monitors of one monitorMultipleTransactions call share no state.
\* A step of monitor i leaves every other monitor as it is, and what it does
\* to monitor i follows from monitor i's own start time, completed flag,
\* timer and status result: its outcome and its number of polls are those of
\* its own loop, however the steps of the monitors are interleaved.
C28_MonitorsShareNoState ==
    /\ [][agg.pc # "idle" =>
            \A i \in DOMAIN mon :
               MonitorStep(i) =>
                  /\ \A j \in DOMAIN mon : j # i => mon'[j] = mon[j]
                  /\ mon'[i].startTime = mon[i].startTime
                  /\ mon[i].pc \in {"query", "wait"}
                  /\ mon[i].pc = "query" =>
                        /\ mon'[i].polls = mon[i].polls
                        /\ IF mon'[i].status = "COMPLETED"
                           THEN /\ mon'[i].pc = "resolved" /\ mon'[i].completed
                                /\ mon'[i].waits = mon[i].waits
                           ELSE /\ mon'[i].pc = "wait" /\ ~mon'[i].completed
                                /\ mon'[i].due = now + pollInterval
                                /\ mon'[i].waits = mon[i].waits + 1
                  /\ mon[i].pc = "wait" =>
                        /\ now >= mon[i].due
                        /\ mon'[i].status = mon[i].status
                        /\ mon'[i].waits = mon[i].waits
                        /\ IF now - mon[i].startTime < timeout
                           THEN mon'[i].pc = "query" /\ mon'[i].polls = mon[i].polls + 1
                           ELSE /\ mon'[i].pc = "rejected" /\ mon'[i].error = TimeoutMessage
                                /\ mon'[i].polls = mon[i].polls
         ]_vars
    /\ [](agg.pc # "idle" =>
            \A i \in DOMAIN mon :
               /\ mon[i].completed <=> mon[i].status = "COMPLETED"
               /\ mon[i].pc = "resolved" <=> mon[i].status = "COMPLETED"
               /\ mon[i].polls = mon[i].waits + (IF mon[i].pc \in {"query", "resolved"}
                                                 THEN 1 ELSE 0))

\* Two monitors of one call whose steps were interleaved: one resolved at its
\* first poll, the other polled on and ended with its own timeout.
C28_Witness ==
    /\ agg.pc = "rejected"
    /\ mon[1].pc = "rejected" /\ mon[1].polls >= 2 /\ mon[1].caught = "query error"
    /\ mon[2].pc = "resolved" /\ mon[2].polls = 1
    /\ mon[2].lateResult

\* C21: waitForTransaction resolves only after one of its monitoring attempts
\* observed the COMPLETED status, whatever the maxRetries option is, 0 and
\* negative values included.
C21_ResolvesOnlyWhenCompleted ==
    wft.pc = "resolved" =>
        /\ wft.attempts >= 1
        /\ mon[1].pc = "resolved"
        /\ mon[1].completed
        /\ mon[1].status = "COMPLETED"

\* C29: for maxRetries >= 1 the attempts run in sequence and are at most
\* maxRetries; the call returns at the first attempt that resolved and starts
\* no other; a rejected attempt that is not the last is followed by a wait of
\* pollInterval and then the next attempt; the maxRetries-th rejected attempt
\* rejects the call with the message naming maxRetries, with no wait; what the
\* rejected attempt had observed (FAILED, REFUNDED or nothing terminal) plays
\* no part.
C29_AtMostMaxRetriesAttemptsInSequence ==
    [][wft.maxRetries >= 1 =>
        \* the counts in each position of the call
        /\ wft'.attempts <= wft'.maxRetries
        /\ wft'.pc \in {"monitoring", "resolved"} =>
               wft'.attempts = wft'.retries + 1 /\ wft'.waits = wft'.retries
        /\ wft'.pc = "retryWait" =>
               /\ wft'.attempts = wft'.retries /\ wft'.waits = wft'.retries
               /\ wft'.retries < wft'.maxRetries
        /\ wft'.pc = "rejected" =>
               /\ wft'.attempts = wft'.maxRetries /\ wft'.retries = wft'.maxRetries
               /\ wft'.waits = wft'.maxRetries - 1
               /\ wft'.error = [text |-> "Failed to monitor transaction after N attempts",
                                N |-> wft'.maxRetries]
        \* the call returns exactly when its attempt resolved
        /\ wft.pc # "resolved" /\ wft'.pc = "resolved" =>
               /\ wft.pc = "monitoring" /\ mon[1].pc = "resolved"
               /\ mon' = mon /\ wft'.attempts = wft.attempts
        \* the attempt rejected: the last one ends the call at once, any other
        \* starts the timer of pollInterval, whatever the attempt had observed
        /\ wft.pc = "monitoring" /\ wft'.pc # "monitoring" /\ wft'.pc # "resolved" =>
               /\ mon[1].pc = "rejected" /\ mon' = mon /\ now' = now
               /\ wft'.retries = wft.retries + 1
               /\ IF wft.attempts = wft.maxRetries
                  THEN wft'.pc = "rejected" /\ wft'.waits = wft.waits
                  ELSE /\ wft'.pc = "retryWait" /\ wft'.waits = wft.waits + 1
                       /\ wft'.due = now + pollInterval
        \* an attempt starts at the call or when the timer of a wait has fired,
        \* and starts a fresh monitor
        /\ wft'.attempts # wft.attempts =>
               /\ wft'.attempts = wft.attempts + 1 /\ wft'.pc = "monitoring"
               /\ \/ wft.pc = "idle"
                  \/ wft.pc = "retryWait" /\ now >= wft.due
               /\ mon'[1].startTime = now /\ mon'[1].polls <= 1 /\ mon'[1].waits = 0
        \* nothing happens after the call has settled
        /\ wft.pc \in {"resolved", "rejected"} => wft' = wft /\ mon' = mon
    ]_vars

\* The second attempt of a call is running, the first having been rejected
\* after it observed FAILED or REFUNDED.
C29_Witness ==
    /\ wft.maxRetries >= 2 /\ wft.pc = "monitoring" /\ wft.attempts = 2
    /\ wft.retriedTerminal

====
